---- MODULE Spec2Model ----
(***************************************************************************)
(* PeCoffGetPdbPath (MdePkg/Library/BasePeCoffLib2/PeCoffDebug.c).         *)
(*                                                                         *)
(* A UINT32 is a pair <<hi, lo>> of 16-bit halves, so that the full 32-bit *)
(* width of the C arithmetic is kept.  A "wide" number is the same pair    *)
(* with an unbounded hi half: it is the true integer value of an offset    *)
(* from the start of the file buffer (pointer arithmetic does not wrap at  *)
(* 32 bits), or the true value of a sum.                                   *)
(*                                                                         *)
(* The file buffer is caller-owned and constant.  FileBuffer holds the     *)
(* part of its content that has been fixed so far: a function from         *)
(* <<field kind, file offset>> to the value stored there.  ReadFileBuffer  *)
(* fixes the content of the one location the function is about to          *)
(* dereference, so every buffer content is explored, one read at a time.   *)
(***************************************************************************)
EXTENDS Integers, FiniteSets, Sequences, TLC

VARIABLES Pcd, Context, FileBuffer, Ret

vars == <<Pcd, Context, FileBuffer, Ret>>

-----------------------------------------------------------------------------
(* Bounds of the model *)

MaxSections == 2

MaxDebugEntries == 2

-----------------------------------------------------------------------------
(* 32-bit arithmetic *)

Half == 65536

I2U(n) == <<n \div Half, n % Half>>

Norm(h, l) == <<h + (l \div Half), l % Half>>

WideAdd(a, b) == Norm(a[1] + b[1], a[2] + b[2])

WideSub(a, b) == Norm(a[1] - b[1], a[2] - b[2])

Wrap32(w) == <<w[1] % Half, w[2]>>

Lt(a, b) == a[1] < b[1] \/ (a[1] = b[1] /\ a[2] < b[2])

Le(a, b) == a[1] < b[1] \/ (a[1] = b[1] /\ a[2] <= b[2])

MAX_UINT32 == <<Half - 1, Half - 1>>

Zero32 == <<0, 0>>

BaseOverflowAddU32(a, b) ==
  [Overflow |-> WideAdd(a, b)[1] >= Half, Result |-> Wrap32(WideAdd(a, b))]

BaseOverflowSubU32(a, b) ==
  [Overflow |-> WideSub(a, b)[1] < 0, Result |-> Wrap32(WideSub(a, b))]

\* a + b and a - b on UINT32 operands, as C computes them (modulo 2^32)
AddU32(a, b) == Wrap32(WideAdd(a, b))

SubU32(a, b) == Wrap32(WideSub(a, b))

\* a % n and a / n for a small positive n (2^16 % n is taken first, so that
\* no intermediate value leaves the range of the model checker's integers)
ModU32(a, n) == ((a[1] % n) * (Half % n) + a[2]) % n

DivU32(a, n) == <<a[1] \div n, ((a[1] % n) * Half + a[2]) \div n>>

IS_ALIGNED(a, n) == ModU32(a, n) = 0

SIGNATURE_32(a, b, c, d) == <<c + 256 * d, a + 256 * b>>

-----------------------------------------------------------------------------
(* Constants of the image format *)

EFI_IMAGE_DIRECTORY_ENTRY_DEBUG == 6

EFI_IMAGE_DEBUG_TYPE_CODEVIEW == 2

SizeofDebugEntry == 28

AlignofDebugEntry == 4

SizeofUint32 == 4

SizeofDataDirectory == 8

SizeofSectionHeader == 40

SizeofNb10Entry == 16

SizeofRsdsEntry == 24

SizeofMtocEntry == 20

CODEVIEW_SIGNATURE_NB10 == SIGNATURE_32(78, 66, 49, 48)

CODEVIEW_SIGNATURE_RSDS == SIGNATURE_32(82, 83, 68, 83)

CODEVIEW_SIGNATURE_MTOC == SIGNATURE_32(77, 84, 79, 67)

\* offsets of the fields read from the image headers
TeHdrDataDirectory == 24

Pe32NumberOfRvaAndSizes == 116

Pe32DataDirectory == 120

Pe32PlusNumberOfRvaAndSizes == 132

Pe32PlusDataDirectory == 136

ImageTypes ==
  {"PeCoffLoaderTypeTe", "PeCoffLoaderTypePe32", "PeCoffLoaderTypePe32Plus",
   "PeCoffLoaderTypeMax"}

-----------------------------------------------------------------------------
(* Outcomes.  Line is the source line of the return statement (or of the   *)
(* ASSERT that stopped the call); Reads is the set of <<kind, offset,      *)
(* size>> ranges of the file buffer dereferenced on the way.  Status       *)
(* "Pending" with Need = <<kind, offset>> means the next statement reads a *)
(* location whose content FileBuffer has not fixed yet.                    *)

Unset == <<>>

NotReturned == [Status |-> "NotReturned"]

Return(status, line, rd) ==
  [Status |-> status, Line |-> line, PdbPath |-> Unset, PdbPathSize |-> Unset,
   Reads |-> rd]

Success(line, PdbName, PdbNameSize, rd) ==
  [Status |-> "RETURN_SUCCESS", Line |-> line, PdbPath |-> PdbName,
   PdbPathSize |-> PdbNameSize, Reads |-> rd]

AssertFault(line, rd) ==
  [Status |-> "ASSERT", Line |-> line, PdbPath |-> Unset, PdbPathSize |-> Unset,
   Reads |-> rd]

Pending(kind, off, rd) ==
  [Status |-> "Pending", Need |-> <<kind, off>>, Reads |-> rd]

Fixed(buf, kind, off) == <<kind, off>> \in DOMAIN buf

\* ASSERT (Expression): stops the call when the build enables assertions
AssertFails(pcd, Expression) == pcd.DebugAssertEnabled /\ ~Expression

-----------------------------------------------------------------------------
(* CodeView Extractor *)

PdbOffsetOf(Signature) ==
  IF Signature = CODEVIEW_SIGNATURE_NB10 THEN SizeofNb10Entry
  ELSE IF Signature = CODEVIEW_SIGNATURE_RSDS THEN SizeofRsdsEntry
  ELSE IF Signature = CODEVIEW_SIGNATURE_MTOC THEN SizeofMtocEntry
  ELSE 0

KnownSignature(Signature) ==
  Signature \in {CODEVIEW_SIGNATURE_NB10, CODEVIEW_SIGNATURE_RSDS,
                 CODEVIEW_SIGNATURE_MTOC}

PdbNameSizeOf(CodeViewEntry, PdbOffset) ==
  BaseOverflowSubU32(CodeViewEntry.SizeOfData, I2U(PdbOffset))

\* mutant: the "PdbNameSize == 0" half of line 308 is missing
NoPdbName_AllowsEmpty(CodeViewEntry, PdbOffset) ==
  PdbNameSizeOf(CodeViewEntry, PdbOffset).Overflow

NoPdbName(CodeViewEntry, PdbOffset) ==
  \/ PdbNameSizeOf(CodeViewEntry, PdbOffset).Overflow
  \/ PdbNameSizeOf(CodeViewEntry, PdbOffset).Result = Zero32

\* offset of PdbName[PdbNameSize - 1] from the start of the file buffer
LastByteOffset(PdbName, PdbNameSize) ==
  WideAdd(PdbName, SubU32(PdbNameSize, I2U(1)))

Terminator(buf, CodeViewEntry, PdbName, PdbNameSize, rd) ==
  LET Last == LastByteOffset(PdbName, PdbNameSize)
      rd2  == rd \cup {<<"Byte", Last, 1>>}
  IN  IF ~Fixed(buf, "Byte", Last) THEN Pending("Byte", Last, rd)
      ELSE IF buf[<<"Byte", Last>>] # 0
             THEN Return("RETURN_UNSUPPORTED", 319, rd2)
             ELSE Success(325, PdbName, PdbNameSize, rd2)

CodeViewExtractor(buf, CodeViewEntry, DebugEntryFileOffset, rd) ==
  LET CodeView == DebugEntryFileOffset
      rd2      == rd \cup {<<"Signature", CodeView, SizeofUint32>>}
  IN  IF ~Fixed(buf, "Signature", CodeView) THEN Pending("Signature", CodeView, rd)
      ELSE LET Signature == buf[<<"Signature", CodeView>>]
               PdbOffset == PdbOffsetOf(Signature)
           IN  IF ~KnownSignature(Signature)
                 THEN Return("RETURN_UNSUPPORTED", 297, rd2)
               ELSE IF NoPdbName(CodeViewEntry, PdbOffset)
                 THEN Return("RETURN_UNSUPPORTED", 310, rd2)
               ELSE Terminator(buf, CodeViewEntry,
                               WideAdd(CodeView, I2U(PdbOffset)),
                               PdbNameSizeOf(CodeViewEntry, PdbOffset).Result, rd2)

EntryTooSmall(CodeViewEntry) == Lt(CodeViewEntry.SizeOfData, I2U(SizeofUint32))

\* mutant: the compensation of line 231 is gated by the image format
DebugEntryFileOffsetOf_FormatGated(pcd, ctx, CodeViewEntry) ==
  IF ctx.ImageType = "PeCoffLoaderTypeTe"
    THEN BaseOverflowSubU32(CodeViewEntry.FileOffset, ctx.TeStrippedOffset)
    ELSE [Overflow |-> FALSE, Result |-> CodeViewEntry.FileOffset]

\* lines 229-243: the CodeView entry's file offset after compensation
DebugEntryFileOffsetOf(pcd, ctx, CodeViewEntry) ==
  IF ~pcd.PcdImageLoaderProhibitTe
    THEN BaseOverflowSubU32(CodeViewEntry.FileOffset, ctx.TeStrippedOffset)
    ELSE [Overflow |-> FALSE, Result |-> CodeViewEntry.FileOffset]

\* mutant: the sum of line 249 is taken unchecked
EntryOutOfFile_NoOverflow(ctx, DebugEntryFileOffset, CodeViewEntry) ==
  LET Top == BaseOverflowAddU32(DebugEntryFileOffset, CodeViewEntry.SizeOfData)
  IN  \/ Lt(ctx.FileSize, Top.Result)
      \/ ~IS_ALIGNED(DebugEntryFileOffset, SizeofUint32)

EntryOutOfFile(ctx, DebugEntryFileOffset, CodeViewEntry) ==
  LET Top == BaseOverflowAddU32(DebugEntryFileOffset, CodeViewEntry.SizeOfData)
  IN  \/ Top.Overflow
      \/ Lt(ctx.FileSize, Top.Result)
      \/ ~IS_ALIGNED(DebugEntryFileOffset, SizeofUint32)

CodeViewEntryCheck(pcd, ctx, buf, CodeViewEntry, rd) ==
  LET Off == DebugEntryFileOffsetOf(pcd, ctx, CodeViewEntry)
  IN  IF EntryTooSmall(CodeViewEntry)
        THEN Return("RETURN_UNSUPPORTED", 226, rd)
      ELSE IF Off.Overflow
        THEN Return("RETURN_UNSUPPORTED", 239, rd)
      ELSE IF pcd.PcdImageLoaderProhibitTe
              /\ AssertFails(pcd, ctx.TeStrippedOffset = Zero32)
        THEN AssertFault(242, rd)
      ELSE IF EntryOutOfFile(ctx, Off.Result, CodeViewEntry)
        THEN Return("RETURN_UNSUPPORTED", 258, rd)
      ELSE CodeViewExtractor(buf, CodeViewEntry, Off.Result, rd)

-----------------------------------------------------------------------------
(* Entry Scanner *)

NumDebugEntriesOf(DebugDir) == DivU32(DebugDir.Size, SizeofDebugEntry)

\* offset of DebugEntries[DebugIndex] from the start of the file buffer
DebugEntryAt(DebugDirFileOffset, DebugIndex) ==
  WideAdd(DebugDirFileOffset, I2U(DebugIndex * SizeofDebugEntry))

IsCodeView(DebugEntry) == DebugEntry.Type = EFI_IMAGE_DEBUG_TYPE_CODEVIEW

\* mutant: the loop of line 206 has no break, the last CodeView entry wins
RECURSIVE EntryScanner_LastMatch(_, _, _, _, _, _, _)
EntryScanner_LastMatch(pcd, ctx, buf, DebugDir, DebugDirFileOffset, DebugIndex, rd) ==
  IF ~Lt(I2U(DebugIndex), NumDebugEntriesOf(DebugDir))
    THEN Return("RETURN_NOT_FOUND", 216, rd)
  ELSE LET At   == DebugEntryAt(DebugDirFileOffset, DebugIndex)
           rd2  == rd \cup {<<"DebugEntry", At, SizeofDebugEntry>>}
           Rest == EntryScanner_LastMatch(pcd, ctx, buf, DebugDir,
                                          DebugDirFileOffset, DebugIndex + 1, rd2)
       IN  IF ~Fixed(buf, "DebugEntry", At) THEN Pending("DebugEntry", At, rd)
           ELSE IF Rest.Status = "RETURN_NOT_FOUND"
                   /\ IsCodeView(buf[<<"DebugEntry", At>>])
             THEN CodeViewEntryCheck(pcd, ctx, buf, buf[<<"DebugEntry", At>>],
                                     Rest.Reads)
             ELSE Rest

RECURSIVE EntryScanner(_, _, _, _, _, _, _)
EntryScanner(pcd, ctx, buf, DebugDir, DebugDirFileOffset, DebugIndex, rd) ==
  IF ~Lt(I2U(DebugIndex), NumDebugEntriesOf(DebugDir))
    THEN Return("RETURN_NOT_FOUND", 216, rd)
  ELSE LET At  == DebugEntryAt(DebugDirFileOffset, DebugIndex)
           rd2 == rd \cup {<<"DebugEntry", At, SizeofDebugEntry>>}
       IN  IF ~Fixed(buf, "DebugEntry", At) THEN Pending("DebugEntry", At, rd)
           ELSE IF IsCodeView(buf[<<"DebugEntry", At>>])
             THEN CodeViewEntryCheck(pcd, ctx, buf, buf[<<"DebugEntry", At>>], rd2)
             ELSE EntryScanner(pcd, ctx, buf, DebugDir, DebugDirFileOffset,
                               DebugIndex + 1, rd2)

-----------------------------------------------------------------------------
(* Address Mapper *)

\* offset of Sections[SectionIndex] from the start of the file buffer
SectionAt(ctx, SectionIndex) ==
  WideAdd(ctx.SectionsOffset, I2U(SectionIndex * SizeofSectionHeader))

\* line 151: the UINT32 sum VirtualAddress + VirtualSize
SectionTop(Section) == AddU32(Section.VirtualAddress, Section.VirtualSize)

SectionContains(DebugDir, DebugDirTop, Section) ==
  /\ Le(Section.VirtualAddress, DebugDir.VirtualAddress)
  /\ Le(DebugDirTop, SectionTop(Section))

DebugDirSectionOffsetOf(DebugDir, Section) ==
  SubU32(DebugDir.VirtualAddress, Section.VirtualAddress)

DebugDirSectionRawTopOf(DebugDir, Section) ==
  AddU32(DebugDirSectionOffsetOf(DebugDir, Section), DebugDir.Size)

RawOverrun(DebugDir, Section) ==
  Lt(Section.SizeOfRawData, DebugDirSectionRawTopOf(DebugDir, Section))

\* lines 182-193: the directory's file offset after compensation
DebugDirFileOffsetOf(pcd, ctx, DebugDir, Section) ==
  LET Raw == AddU32(Section.PointerToRawData,
                    DebugDirSectionOffsetOf(DebugDir, Section))
  IN  IF ~pcd.PcdImageLoaderProhibitTe
        THEN SubU32(Raw, ctx.TeStrippedOffset)
        ELSE Raw

\* mutant: the ASSERT of line 192 is missing
StrippedOffsetAssert_NoElse(pcd, ctx, Section) ==
  pcd.PcdImageLoaderProhibitTe
    \/ Le(ctx.TeStrippedOffset, Section.PointerToRawData)

\* the expressions of the two ASSERTs of lines 189 and 192
StrippedOffsetAssert(pcd, ctx, Section) ==
  IF ~pcd.PcdImageLoaderProhibitTe
    THEN Le(ctx.TeStrippedOffset, Section.PointerToRawData)
    ELSE ctx.TeStrippedOffset = Zero32

AddressMapper(pcd, ctx, buf, DebugDir, Section, rd) ==
  LET DebugDirFileOffset == DebugDirFileOffsetOf(pcd, ctx, DebugDir, Section)
  IN  IF RawOverrun(DebugDir, Section)
        THEN Return("RETURN_UNSUPPORTED", 176, rd)
      ELSE IF AssertFails(pcd, StrippedOffsetAssert(pcd, ctx, Section))
        THEN AssertFault(IF pcd.PcdImageLoaderProhibitTe THEN 192 ELSE 189, rd)
      ELSE IF ~IS_ALIGNED(DebugDirFileOffset, AlignofDebugEntry)
        THEN Return("RETURN_UNSUPPORTED", 197, rd)
      ELSE EntryScanner(pcd, ctx, buf, DebugDir, DebugDirFileOffset, 0, rd)

RECURSIVE SectionScanner(_, _, _, _, _, _, _)
SectionScanner(pcd, ctx, buf, DebugDir, DebugDirTop, SectionIndex, rd) ==
  IF SectionIndex = ctx.NumberOfSections
    THEN Return("RETURN_UNSUPPORTED", 162, rd)
  ELSE LET At  == SectionAt(ctx, SectionIndex)
           rd2 == rd \cup {<<"Section", At, SizeofSectionHeader>>}
       IN  IF ~Fixed(buf, "Section", At) THEN Pending("Section", At, rd)
           ELSE IF SectionContains(DebugDir, DebugDirTop, buf[<<"Section", At>>])
             THEN AddressMapper(pcd, ctx, buf, DebugDir, buf[<<"Section", At>>], rd2)
             ELSE SectionScanner(pcd, ctx, buf, DebugDir, DebugDirTop,
                                 SectionIndex + 1, rd2)

-----------------------------------------------------------------------------
(* Directory Validator *)

\* mutant: a directory shorter than one entry counts as empty
DirEmpty_OrShort(DebugDir) == Lt(DebugDir.Size, I2U(SizeofDebugEntry))

DirEmpty(DebugDir) == DebugDir.Size = Zero32

DirSizeMalformed(DebugDir) == ModU32(DebugDir.Size, SizeofDebugEntry) # 0

DebugDirTopOf(DebugDir) ==
  BaseOverflowAddU32(DebugDir.VirtualAddress, DebugDir.Size)

\* mutant: the Overflow flag of line 137 is ignored
DirOutOfImage_NoOverflow(ctx, DebugDir) ==
  Lt(ctx.SizeOfImage, DebugDirTopOf(DebugDir).Result)

DirOutOfImage(ctx, DebugDir) ==
  \/ DebugDirTopOf(DebugDir).Overflow
  \/ Lt(ctx.SizeOfImage, DebugDirTopOf(DebugDir).Result)

DirectoryValidator(pcd, ctx, buf, DebugDir, rd) ==
  IF DirEmpty(DebugDir)
    THEN Return("RETURN_NOT_FOUND", 118, rd)
  ELSE IF DirSizeMalformed(DebugDir)
    THEN Return("RETURN_UNSUPPORTED", 126, rd)
  ELSE IF DirOutOfImage(ctx, DebugDir)
    THEN Return("RETURN_UNSUPPORTED", 139, rd)
  ELSE SectionScanner(pcd, ctx, buf, DebugDir, DebugDirTopOf(DebugDir).Result,
                      0, rd)

-----------------------------------------------------------------------------
(* Directory Locator *)

\* offset of the debug directory descriptor from the start of the file buffer
DebugDirAt(ctx) ==
  CASE ctx.ImageType = "PeCoffLoaderTypeTe" ->
         I2U(TeHdrDataDirectory + 1 * SizeofDataDirectory)
    [] ctx.ImageType = "PeCoffLoaderTypePe32" ->
         WideAdd(ctx.ExeHdrOffset,
                 I2U(Pe32DataDirectory
                       + EFI_IMAGE_DIRECTORY_ENTRY_DEBUG * SizeofDataDirectory))
    [] ctx.ImageType = "PeCoffLoaderTypePe32Plus" ->
         WideAdd(ctx.ExeHdrOffset,
                 I2U(Pe32PlusDataDirectory
                       + EFI_IMAGE_DIRECTORY_ENTRY_DEBUG * SizeofDataDirectory))

NumberOfRvaAndSizesAt(ctx) ==
  CASE ctx.ImageType = "PeCoffLoaderTypePe32" ->
         WideAdd(ctx.ExeHdrOffset, I2U(Pe32NumberOfRvaAndSizes))
    [] ctx.ImageType = "PeCoffLoaderTypePe32Plus" ->
         WideAdd(ctx.ExeHdrOffset, I2U(Pe32PlusNumberOfRvaAndSizes))

NoDebugDirectory(NumberOfRvaAndSizes) ==
  Le(NumberOfRvaAndSizes, I2U(EFI_IMAGE_DIRECTORY_ENTRY_DEBUG))

ReadDebugDir(pcd, ctx, buf, rd) ==
  LET At  == DebugDirAt(ctx)
      rd2 == rd \cup {<<"DataDirectory", At, SizeofDataDirectory>>}
  IN  IF ~Fixed(buf, "DataDirectory", At) THEN Pending("DataDirectory", At, rd)
      ELSE DirectoryValidator(pcd, ctx, buf, buf[<<"DataDirectory", At>>], rd2)

ReadPeHdr(pcd, ctx, buf, notFoundLine) ==
  LET At == NumberOfRvaAndSizesAt(ctx)
      rd == {<<"NumberOfRvaAndSizes", At, SizeofUint32>>}
  IN  IF ~Fixed(buf, "NumberOfRvaAndSizes", At)
        THEN Pending("NumberOfRvaAndSizes", At, {})
      ELSE IF NoDebugDirectory(buf[<<"NumberOfRvaAndSizes", At>>])
        THEN Return("RETURN_NOT_FOUND", notFoundLine, rd)
        ELSE ReadDebugDir(pcd, ctx, buf, rd)

DirectoryLocator(pcd, ctx, buf) ==
  CASE ctx.ImageType = "PeCoffLoaderTypeTe" ->
         IF pcd.PcdImageLoaderProhibitTe
           THEN IF AssertFails(pcd, FALSE)
                  THEN AssertFault(74, {})
                  ELSE Return("RETURN_UNSUPPORTED", 75, {})
           ELSE ReadDebugDir(pcd, ctx, buf, {})
    [] ctx.ImageType = "PeCoffLoaderTypePe32" -> ReadPeHdr(pcd, ctx, buf, 91)
    [] ctx.ImageType = "PeCoffLoaderTypePe32Plus" -> ReadPeHdr(pcd, ctx, buf, 103)
    [] OTHER ->
         IF AssertFails(pcd, FALSE)
           THEN AssertFault(110, {})
           ELSE Return("RETURN_UNSUPPORTED", 111, {})

\* mutant: the configuration check of line 64 is missing
GetPdbPath_IgnoresPcd(pcd, ctx, buf) == DirectoryLocator(pcd, ctx, buf)

\* the whole function: its outcome on configuration pcd, descriptor ctx and
\* file buffer content buf
GetPdbPath(pcd, ctx, buf) ==
  IF ~pcd.PcdImageLoaderDebugSupport
    THEN Return("RETURN_NOT_FOUND", 65, {})
    ELSE DirectoryLocator(pcd, ctx, buf)

-----------------------------------------------------------------------------
(* Configurations, descriptors and buffer contents explored *)

Pcds ==
  [PcdImageLoaderDebugSupport : BOOLEAN, PcdImageLoaderProhibitTe : BOOLEAN,
   DebugAssertEnabled : BOOLEAN]

SizesOfImage == {I2U(4096 + SizeofDebugEntry), MAX_UINT32}

StrippedOffsets == {Zero32, I2U(40), I2U(4096)}

FileSizes == {I2U(1296), I2U(1312)}

Contexts ==
  {[ImageType |-> t, SizeOfImage |-> si, NumberOfSections |-> n,
    TeStrippedOffset |-> st, FileSize |-> fs,
    ExeHdrOffset |-> IF t = "PeCoffLoaderTypeTe" THEN Zero32 ELSE I2U(128),
    SectionsOffset |-> IF t = "PeCoffLoaderTypeTe" THEN I2U(40) ELSE I2U(512)] :
     t \in ImageTypes, si \in SizesOfImage, n \in 0 .. MaxSections,
     st \in StrippedOffsets, fs \in FileSizes}

DirAddresses == {I2U(4096), I2U(4098), <<65535, 61440>>, <<65535, 65520>>}

DirSizes == {Zero32, I2U(10)} \cup
            {I2U(k * SizeofDebugEntry) : k \in 1 .. MaxDebugEntries}

SectionHeaders ==
  {[VirtualAddress |-> I2U(4096), VirtualSize |-> I2U(4096),
    PointerToRawData |-> I2U(1024), SizeOfRawData |-> I2U(256)],
   [VirtualAddress |-> I2U(4096), VirtualSize |-> I2U(4096),
    PointerToRawData |-> I2U(1296), SizeOfRawData |-> I2U(SizeofDebugEntry)],
   [VirtualAddress |-> I2U(12288), VirtualSize |-> I2U(4096),
    PointerToRawData |-> I2U(768), SizeOfRawData |-> I2U(256)],
   [VirtualAddress |-> <<65535, 61440>>, VirtualSize |-> I2U(8192),
    PointerToRawData |-> I2U(1024), SizeOfRawData |-> I2U(256)]}

DebugEntries ==
  {[Type |-> 1, SizeOfData |-> Zero32, FileOffset |-> Zero32]} \cup
  [Type : {EFI_IMAGE_DEBUG_TYPE_CODEVIEW},
   SizeOfData : {I2U(2), I2U(20), I2U(32)},
   FileOffset : {I2U(16), I2U(1280), I2U(1282), <<65535, 65520>>}]

Signatures ==
  {CODEVIEW_SIGNATURE_NB10, CODEVIEW_SIGNATURE_RSDS, CODEVIEW_SIGNATURE_MTOC,
   SIGNATURE_32(78, 66, 48, 57)}

Values(kind) ==
  CASE kind = "NumberOfRvaAndSizes" ->
         {I2U(EFI_IMAGE_DIRECTORY_ENTRY_DEBUG),
          I2U(EFI_IMAGE_DIRECTORY_ENTRY_DEBUG + 1)}
    [] kind = "DataDirectory" -> [VirtualAddress : DirAddresses, Size : DirSizes]
    [] kind = "Section" -> SectionHeaders
    [] kind = "DebugEntry" -> DebugEntries
    [] kind = "Signature" -> Signatures
    [] kind = "Byte" -> {0, 98}

EmptyBuffer == [loc \in {} |-> 0]

-----------------------------------------------------------------------------
(* The state machine *)

Init ==
  /\ Pcd \in Pcds
  /\ Context \in Contexts
  /\ FileBuffer = EmptyBuffer
  /\ Ret = NotReturned

\* the call dereferences a location of the file buffer: its content is fixed
ReadFileBuffer ==
  /\ Ret = NotReturned
  /\ GetPdbPath(Pcd, Context, FileBuffer).Status = "Pending"
  /\ \E v \in Values(GetPdbPath(Pcd, Context, FileBuffer).Need[1]) :
       FileBuffer' = (GetPdbPath(Pcd, Context, FileBuffer).Need :> v) @@ FileBuffer
  /\ UNCHANGED <<Pcd, Context, Ret>>

\* the call ends: it returns, or stops in an ASSERT
PeCoffGetPdbPath ==
  /\ Ret = NotReturned
  /\ GetPdbPath(Pcd, Context, FileBuffer).Status # "Pending"
  /\ Ret' = GetPdbPath(Pcd, Context, FileBuffer)
  /\ UNCHANGED <<Pcd, Context, FileBuffer>>

Next == ReadFileBuffer \/ PeCoffGetPdbPath

Spec == Init /\ [][Next]_vars

-----------------------------------------------------------------------------
(* Vocabulary of the properties *)

Called == Ret # NotReturned

Succeeded == Ret.Status = "RETURN_SUCCESS"

Absent == Ret.Status = "RETURN_NOT_FOUND"

Malformed == Ret.Status = "RETURN_UNSUPPORTED"

Asserted == Ret.Status = "ASSERT"

IsPe == Context.ImageType \in {"PeCoffLoaderTypePe32", "PeCoffLoaderTypePe32Plus"}

IsTe == Context.ImageType = "PeCoffLoaderTypeTe"

\* the ranges of one kind dereferenced by the call, and what was found there
ReadsOf(kind) == {r \in Ret.Reads : r[1] = kind}

Found(r) == FileBuffer[<<r[1], r[2]>>]

\* the range lies inside [0, FileSize), as true integers
InFile(r) == r[2][1] >= 0 /\ Le(WideAdd(r[2], I2U(r[3])), Context.FileSize)

\* the CodeView entry the scan stopped at and the signature read for it
MatchedEntries == {Found(r) : r \in {x \in ReadsOf("DebugEntry") : IsCodeView(Found(x))}}

FixedHeaderSize(Signature) ==
  CASE Signature = SIGNATURE_32(78, 66, 49, 48) -> 16
    [] Signature = SIGNATURE_32(82, 83, 68, 83) -> 24
    [] Signature = SIGNATURE_32(77, 84, 79, 67) -> 20
    [] OTHER -> -1

\* what the upstream loader guarantees of the descriptor and of the section
\* headers the call looks at
HeadersInFile ==
  /\ IsTe => Le(I2U(TeHdrDataDirectory + 2 * SizeofDataDirectory), Context.FileSize)
  /\ IsPe => \A r \in ReadsOf("NumberOfRvaAndSizes") :
               Le(WideAdd(WideAdd(r[2], I2U(SizeofUint32)),
                          I2U(Found(r)[2] * SizeofDataDirectory)),
                  Context.FileSize)
  /\ Le(WideAdd(Context.SectionsOffset,
                I2U(Context.NumberOfSections * SizeofSectionHeader)),
        Context.FileSize)

SectionInFile(Section) ==
  /\ Le(Context.TeStrippedOffset, Section.PointerToRawData)
  /\ Le(WideAdd(WideSub(Section.PointerToRawData, Context.TeStrippedOffset),
                Section.SizeOfRawData),
        Context.FileSize)

LoaderPreconditions ==
  /\ Pcd.PcdImageLoaderProhibitTe => Context.TeStrippedOffset = Zero32
  /\ HeadersInFile
  /\ \A r \in ReadsOf("Section") : SectionInFile(Found(r))

-----------------------------------------------------------------------------
\* C1: whenever the call returns success, the returned view is a non-empty,
\* zero-terminated sub-range of the file buffer: its size is at least 1, it
\* ends at or before FileSize, its size is the matched CodeView entry's
\* SizeOfData minus the fixed header size of the signature read, and its last
\* byte is zero; and a call that finds a non-zero last byte returns
\* RETURN_UNSUPPORTED.
C1_SuccessViewInBuffer ==
  Called =>
    /\ Succeeded =>
         /\ Lt(Zero32, Ret.PdbPathSize)
         /\ Ret.PdbPath[1] >= 0
         /\ Le(WideAdd(Ret.PdbPath, Ret.PdbPathSize), Context.FileSize)
         /\ \E e \in MatchedEntries : \E s \in ReadsOf("Signature") :
              /\ FixedHeaderSize(Found(s)) > 0
              /\ Ret.PdbPath = WideAdd(s[2], I2U(FixedHeaderSize(Found(s))))
              /\ WideAdd(Ret.PdbPathSize, I2U(FixedHeaderSize(Found(s))))
                   = e.SizeOfData
         /\ Found(<<"Byte", WideSub(WideAdd(Ret.PdbPath, Ret.PdbPathSize), I2U(1)), 1>>) = 0
    /\ (\E b \in ReadsOf("Byte") : Found(b) # 0) => Malformed

C1_Witness ==
  /\ Called /\ Succeeded
  /\ Ret.PdbPathSize = I2U(8)
  /\ \E s \in ReadsOf("Signature") : Found(s) = CODEVIEW_SIGNATURE_RSDS

C3_DisabledIsAbsent ==
  ~Pcd.PcdImageLoaderDebugSupport =>
    /\ FileBuffer = EmptyBuffer
    /\ GetPdbPath(Pcd, Context, FileBuffer).Status = "RETURN_NOT_FOUND"
    /\ Called => (Absent /\ Ret.Reads = {})

C3_Witness ==
  /\ Called /\ Absent /\ ~Pcd.PcdImageLoaderDebugSupport
  /\ Pcd.DebugAssertEnabled
  /\ Context.ImageType = "PeCoffLoaderTypeMax"

\* C4: the call returns RETURN_NOT_FOUND exactly when (a) processing is
\* disabled, or (b) the image is PE32/PE32+ and NumberOfRvaAndSizes does not
\* reach the debug index, or (c) the directory size is zero, or (d) all
\* Size/28 entries of the directory were reached and scanned and none is
\* CodeView; every other outcome that is not success on a recognised,
\* permitted format is RETURN_UNSUPPORTED, in particular a directory that
\* fails validation.
C4_Disabled == ~Pcd.PcdImageLoaderDebugSupport

C4_NoDirectoryIndex ==
  IsPe /\ \E r \in ReadsOf("NumberOfRvaAndSizes") : ~Lt(I2U(6), Found(r))

C4_EmptyDirectory == \E d \in ReadsOf("DataDirectory") : Found(d).Size = Zero32

C4_NoCodeView ==
  \E d \in ReadsOf("DataDirectory") :
    /\ Found(d).Size # Zero32
    /\ I2U(Cardinality(ReadsOf("DebugEntry")) * 28) = Found(d).Size
    /\ \A e \in ReadsOf("DebugEntry") : Found(e).Type # 2

C4_FailsValidation ==
  \E d \in ReadsOf("DataDirectory") :
    /\ Found(d).Size # Zero32
    /\ \/ ModU32(Found(d).Size, 28) # 0
       \/ Lt(Context.SizeOfImage, WideAdd(Found(d).VirtualAddress, Found(d).Size))

C4_AbsentOrMalformed ==
  Called =>
    /\ Absent <=> (C4_Disabled \/ C4_NoDirectoryIndex \/ C4_EmptyDirectory
                     \/ C4_NoCodeView)
    /\ (/\ IsPe \/ (IsTe /\ ~Pcd.PcdImageLoaderProhibitTe)
        /\ ~Succeeded /\ ~Absent /\ ~Asserted) => Malformed
    /\ C4_FailsValidation => Malformed

C4_Witness ==
  /\ Called /\ Absent /\ C4_NoCodeView /\ ~C4_EmptyDirectory
  /\ Cardinality(ReadsOf("DebugEntry")) = 2

\* the section the scan of lines 149-155 stopped at, and the directory
LastRead(kind) ==
  CHOOSE r \in ReadsOf(kind) : \A q \in ReadsOf(kind) : Le(q[2], r[2])

FirstRead(kind) ==
  CHOOSE r \in ReadsOf(kind) : \A q \in ReadsOf(kind) : Le(r[2], q[2])

SectionSelected == Called /\ ReadsOf("Section") # {} /\ Ret.Line # 162

UnknownFormat == ~IsPe /\ ~IsTe

ProhibitedTe == IsTe /\ Pcd.PcdImageLoaderProhibitTe

StrippedFault ==
  /\ SectionSelected
  /\ IF Pcd.PcdImageLoaderProhibitTe
       THEN Context.TeStrippedOffset # Zero32
       ELSE Lt(Found(LastRead("Section")).PointerToRawData,
               Context.TeStrippedOffset)

\* C5 as stated: with processing enabled, an unrecognised format tag, a TE
\* image while TE is prohibited, or a stripped-byte count that exceeds the
\* selected section's raw-data pointer (or is non-zero while TE is prohibited)
\* ends the call in an assertion fault, never in a returned status.
C5_Original ==
  (Called /\ Pcd.PcdImageLoaderDebugSupport
     /\ (UnknownFormat \/ ProhibitedTe \/ StrippedFault)) => Asserted

\* C5 as amended: in a build with ASSERT enabled, an unrecognised format tag
\* or a prohibited TE image ends in an assertion fault, and so does a
\* stripped-byte count fault once the directory's raw extent fits the
\* selected section (that check comes first and returns RETURN_UNSUPPORTED);
\* in a build with ASSERT disabled no call ends in an assertion fault and the
\* first two cases return RETURN_UNSUPPORTED.  An assertion fault never has
\* another cause.
C5_AssertionFaults ==
  (Called /\ Pcd.PcdImageLoaderDebugSupport) =>
    /\ (UnknownFormat \/ ProhibitedTe) =>
         IF Pcd.DebugAssertEnabled THEN Asserted ELSE Malformed
    /\ (/\ StrippedFault /\ ~ProhibitedTe
        /\ ~Lt(Found(LastRead("Section")).SizeOfRawData,
               WideAdd(WideSub(Found(LastRead("DataDirectory")).VirtualAddress,
                               Found(LastRead("Section")).VirtualAddress),
                       Found(LastRead("DataDirectory")).Size)))
         => IF Pcd.DebugAssertEnabled THEN Asserted ELSE ~Asserted
    /\ Asserted =>
         /\ Pcd.DebugAssertEnabled
         /\ UnknownFormat \/ ProhibitedTe \/ StrippedFault

C5_Witness ==
  /\ Called /\ Asserted /\ IsPe /\ StrippedFault
  /\ Pcd.PcdImageLoaderProhibitTe

\* C7: a directory of non-zero Size whose Size is not a multiple of 28, or
\* whose VirtualAddress + Size (as a true integer) exceeds 2^32 - 1 or
\* SizeOfImage, is RETURN_UNSUPPORTED by the validator, before any section
\* header or directory entry is read; a directory whose top is at most
\* SizeOfImage (in particular equal to it) passes the validator.
C7_DirectoryValidator ==
  Called =>
    \A d \in ReadsOf("DataDirectory") :
      LET Size == Found(d).Size
          Top  == WideAdd(Found(d).VirtualAddress, Found(d).Size)
      IN  Size # Zero32 =>
            IF \/ ModU32(Size, 28) # 0
               \/ Lt(MAX_UINT32, Top)
               \/ Lt(Context.SizeOfImage, Top)
              THEN /\ Malformed
                   /\ Ret.Line \in {126, 139}
                   /\ ReadsOf("Section") = {}
                   /\ ReadsOf("DebugEntry") = {}
              ELSE Ret.Line >= 162

C7_Witness ==
  /\ Called /\ Malformed /\ Ret.Line = 139
  /\ \E d \in ReadsOf("DataDirectory") :
       /\ Found(d).VirtualAddress = <<65535, 65520>>
       /\ Le(AddU32(Found(d).VirtualAddress, Found(d).Size), Context.SizeOfImage)

\* the directory descriptor read, its top as a true integer, and whether a
\* section contains the directory when both tops are true integers
Dir == Found(LastRead("DataDirectory"))

TrueDirTop == WideAdd(Dir.VirtualAddress, Dir.Size)

TrulyContains(Section) ==
  /\ Le(Section.VirtualAddress, Dir.VirtualAddress)
  /\ Le(TrueDirTop, WideAdd(Section.VirtualAddress, Section.VirtualSize))

Compensation ==
  IF Pcd.PcdImageLoaderProhibitTe THEN Zero32 ELSE Context.TeStrippedOffset

\* C8 as stated: for a validated directory the section used is the
\* lowest-indexed section S with S.VirtualAddress <= VA and VA + Size <=
\* S.VirtualAddress + S.VirtualSize, compared as true integers, and the result
\* is RETURN_UNSUPPORTED if there is none; for that section a raw top (VA -
\* S.VirtualAddress) + Size above S.SizeOfRawData is RETURN_UNSUPPORTED;
\* otherwise the entries are read at S.PointerToRawData + (VA -
\* S.VirtualAddress) less the compensation, as a true integer, and a
\* misaligned offset is RETURN_UNSUPPORTED.
C8_Original ==
  (Called /\ LoaderPreconditions /\ Ret.Line >= 162) =>
    /\ \A r \in ReadsOf("Section") :
         TrulyContains(Found(r)) => (r = LastRead("Section") /\ Ret.Line # 162)
    /\ Ret.Line # 162 =>
         LET S      == Found(LastRead("Section"))
             RawTop == WideAdd(WideSub(Dir.VirtualAddress, S.VirtualAddress), Dir.Size)
             Offset == WideSub(WideAdd(S.PointerToRawData,
                                       WideSub(Dir.VirtualAddress, S.VirtualAddress)),
                               Compensation)
         IN  /\ TrulyContains(S)
             /\ Le(RawTop, MAX_UINT32)
             /\ Lt(S.SizeOfRawData, RawTop) => (Malformed /\ Ret.Line = 176)
             /\ (~Lt(S.SizeOfRawData, RawTop) /\ Offset[2] % 4 # 0)
                  => (Malformed /\ Ret.Line = 197)
             /\ ReadsOf("DebugEntry") # {} => FirstRead("DebugEntry")[2] = Offset

\* the entries of the directory behind the first CodeView entry
LaterEntries ==
  {DebugEntryAt(FirstRead("DebugEntry")[2], i) :
     i \in {j \in 1 .. MaxDebugEntries + 1 :
              /\ Lt(I2U(j), NumDebugEntriesOf(Dir))
              /\ \E r \in ReadsOf("DebugEntry") :
                   /\ IsCodeView(Found(r))
                   /\ Lt(r[2], DebugEntryAt(FirstRead("DebugEntry")[2], j))}}

\* what the entries behind the first CodeView entry are replaced by: an entry
\* of another type, and CodeView entries too small, without a name, and valid
Replacements ==
  {e \in DebugEntries : e.FileOffset \in {Zero32, I2U(1280)}}

SameResult(a, b) ==
  /\ a.Status = b.Status
  /\ a.Status = "RETURN_SUCCESS" =>
       (a.PdbPath = b.PdbPath /\ a.PdbPathSize = b.PdbPathSize)

\* C9: the result depends only on the lowest-indexed CodeView entry: whatever
\* the directory holds behind it (further CodeView entries included, valid or
\* not), the call returns the same status and the same view.
C9_FirstMatchWins ==
  (Called /\ ReadsOf("DebugEntry") # {}) =>
    LET Later == {<<"DebugEntry", o>> : o \in LaterEntries}
    IN  \A later \in [Later -> Replacements] :
          SameResult(Ret, GetPdbPath(Pcd, Context, later @@ FileBuffer))

C9_Witness ==
  /\ Called /\ Malformed /\ Ret.Line = 226
  /\ Cardinality(ReadsOf("DebugEntry")) = 1
  /\ LaterEntries # {}

\* C10: for a PE32 or PE32+ descriptor, whose stripped-byte count is zero, the
\* call returns the same status and view with TE prohibited and with TE not
\* prohibited; with TE not prohibited the stripped-byte count is subtracted,
\* for every format, from the directory's file offset and from the CodeView
\* entry's file offset, and an entry offset below the count is
\* RETURN_UNSUPPORTED.
C10_CompensationByConfiguration ==
  Called =>
    /\ (IsPe /\ Context.TeStrippedOffset = Zero32) =>
         SameResult(Ret,
                    GetPdbPath([Pcd EXCEPT !.PcdImageLoaderProhibitTe = ~@],
                               Context, FileBuffer))
    /\ ~Pcd.PcdImageLoaderProhibitTe =>
         /\ ReadsOf("DebugEntry") # {} =>
              Wrap32(WideAdd(FirstRead("DebugEntry")[2], Context.TeStrippedOffset))
                = AddU32(Found(LastRead("Section")).PointerToRawData,
                         SubU32(Dir.VirtualAddress,
                                Found(LastRead("Section")).VirtualAddress))
         /\ \A g \in ReadsOf("Signature") : \E e \in MatchedEntries :
              WideAdd(g[2], Context.TeStrippedOffset) = e.FileOffset
         /\ \A e \in MatchedEntries :
              (~Lt(e.SizeOfData, I2U(4)) /\ Lt(e.FileOffset, Context.TeStrippedOffset))
                => (Malformed /\ Ret.Line = 239)

C10_Witness ==
  /\ Called /\ Succeeded /\ IsPe /\ Context.TeStrippedOffset = Zero32
  /\ ~Pcd.PcdImageLoaderProhibitTe

====
